---- MODULE Spec2Model ----
(***************************************************************************)
(* The sender (src/sender.py) and the receiver (src/server.py) of the file *)
(* transfer pipeline, as one state machine.                                *)
(*                                                                         *)
(* The sender runs on one asyncio event loop.  A task runs from one        *)
(* suspension point to the next without interruption, so every step of a   *)
(* task is one action.  The loop's queue of ready handles is FIFO: the     *)
(* variable ready.  Timers and network I/O complete at times the program   *)
(* does not control: they append handles to ready in separate actions.     *)
(* The receiver is another process: upload_handler handles one request in  *)
(* one action.                                                             *)
(***************************************************************************)
EXTENDS Integers, Sequences, FiniteSets, TLC

\* ------------------------------------------------------------------ bounds
\* most payloads the generator is asked for (--num_files)
MaxFiles == 2
\* most send workers (--num_workers)
MaxWorkers == 2
\* the payload sizes random.randrange(min_size, max_size) draws from: the
\* program's 1024 .. 1024*1024 - 1, scaled down (a payload is never empty)
Sizes == {1}
\* the byte values os.urandom draws from: the least and the greatest byte
ByteValues == {0, 255}

\* ------------------------------------------------------------ pure helpers
Range(s) == {s[i] : i \in DOMAIN s}

Min(S) == CHOOSE x \in S : \A y \in S : x <= y

\* The payloads RandomBlobProvider.__next__ can return: os.urandom(size)
\* with size = random.randrange(min_size, max_size).
Blobs == UNION {[1..n -> ByteValues] : n \in Sizes}

\* sha256(blob).hexdigest().  The digest is modelled as a number computed
\* from every byte and from the length; it has no collisions on the
\* payloads of the model (SHA-256's collision resistance).
RECURSIVE sha256(_)
sha256(blob) ==
    IF Len(blob) = 0 THEN 1
    ELSE sha256(SubSeq(blob, 1, Len(blob) - 1)) * 257 + blob[Len(blob)] + 1

\* random.random() < 0.1 is the draw; the corruption happens when the
\* option is set and the draw is below the threshold.
InjectAlways(inject_bad_checksums, draw) == draw

InjectTriggers(inject_bad_checksums, draw) == inject_bad_checksums /\ draw

\* blob = bytearray(blob); blob[0] += 1.  A bytearray holds values in
\* range(0, 256): the assignment of 256 raises ValueError.
CorruptRaises(blob) == blob[1] + 1 > 255

Corrupt(blob) == [blob EXCEPT ![1] = blob[1] + 1]

\* ---------------------------------------------------------------- receiver
\* open(path, 'wb'); f.write(blob): the file of that name now holds blob,
\* whether or not it existed.  A directory is a function from the id in
\* the file's name to the file's bytes.
WriteFile(files, id, blob) ==
    [i \in (DOMAIN files) \cup {id} |-> IF i = id THEN blob ELSE files[i]]

NoFiles == [i \in {} |-> <<>>]

VerifyNothing(checksum, blob) == TRUE

verify_checksum(checksum, blob) ==
    LET new_checksum == sha256(blob) IN checksum = new_checksum

validate_upload_metadata(j) ==
    IF "id" \notin j.keys THEN FALSE
    ELSE IF "hash" \notin j.keys THEN FALSE
    ELSE TRUE

validate_post(data) ==
    IF "bin_file" \notin data.parts THEN FALSE
    ELSE IF "metadata" \notin data.parts THEN FALSE
    ELSE TRUE

\* data['bin_file'].file: a part sent without a filename arrives as a str,
\* which has no attribute `file` (AttributeError).
FileReadRaises(data) == ~data.bin_is_file

\* json.loads(data['metadata']) raises on text that is not JSON.
JsonLoadsRaises(metadata) == metadata.json = "invalid"

\* `'id' not in j` raises TypeError when j is a JSON number.  On an
\* object it looks at the keys, on an array at the elements: j.keys.
MembershipRaises(metadata) == metadata.json = "number"

\* metadata['id'] raises TypeError when metadata is an array.
SubscriptRaises(metadata) == metadata.json # "object"

\* `Saving file will be skipped due to hash mismatch`: the handler
\* returns before the write.
WriteBeforeVerify(files, id, blob) ==
    [i \in (DOMAIN files) \cup {id} |-> IF i = id THEN blob ELSE files[i]]

SkipSave(files, id, blob) == files

\* upload_handler: the status it answers and the uploads directory it
\* leaves, for one request and the directory it finds.  aiohttp answers
\* 500 when an exception leaves the handler.
upload_handler(data, verify_hash, files) ==
    IF ~validate_post(data) THEN [status |-> 400, files |-> files]
    ELSE IF FileReadRaises(data) THEN [status |-> 500, files |-> files]
    ELSE LET blob == data.bin_file
             metadata == data.metadata
         IN IF JsonLoadsRaises(metadata) \/ MembershipRaises(metadata)
            THEN [status |-> 500, files |-> files]
            ELSE IF ~validate_upload_metadata(metadata)
            THEN [status |-> 400, files |-> files]
            ELSE IF SubscriptRaises(metadata)
            THEN [status |-> 500, files |-> files]
            ELSE LET content_id == metadata.id
                     content_hash == metadata.hash
                 IN IF verify_hash /\ ~verify_checksum(content_hash, blob)
                    THEN [status |-> 400,
                          files |-> SkipSave(files, content_id, blob)]
                    ELSE [status |-> 200,
                          files |-> WriteFile(files, content_id, blob)]

\* ------------------------------------------------------------------- state
VARIABLES
    config,         \* SenderConfig: num_files, num_workers, inject_bad_checksums
    app_config,     \* the receiver's config: verify_hash
    reliable,       \* the transport never fails (the environment, not the program)
    queue,          \* the asyncio.Queue of main
    count,          \* RandomBlobProvider.count
    ready,          \* the event loop's FIFO of handles ready to run
    mpc,            \* where main (with generate_worker, which it awaits inline) is
    mi,             \* main's position in `for t in send_tasks`
    wpc,            \* where each send_worker task is
    must_cancel,    \* a CancelledError is thrown into the worker at its next step
    spc,            \* where each worker's shielded send_blob task is
    sres,           \* how that send_blob ended
    holder,         \* the payload each worker got and has not marked done (0: none)
    net,            \* the POST of each worker's send_blob, in flight
    uuids,          \* how many ids uuid.uuid4() has handed out
    sender_files,   \* save_dir: id -> bytes of sender-<id>.bin
    server_files,   \* uploads_dir: id -> bytes of server-<id>.bin
    payloads,       \* history: one record per payload generated, in order
    handled,        \* history: the requests upload_handler has answered
    log,            \* history: what main and the workers have observed
    inj             \* the injection step on its own: its input and what came of it

vars == <<config, app_config, reliable, queue, count, ready, mpc, mi, wpc,
          must_cancel, spc, sres, holder, net, uuids, sender_files,
          server_files, payloads, handled, log, inj>>

N == config.num_files
W == config.num_workers
Workers == 1..W

MainH == [t |-> "main", w |-> 0]
WorkerH(w) == [t |-> "worker", w |-> w]
SendH(w) == [t |-> "send", w |-> w]

\* call_soon: the handle goes to the end of the ready queue (a task has at
\* most one pending wakeup).
CallSoon(rdy, h) == IF h \in Range(rdy) THEN rdy ELSE Append(rdy, h)

Terminal == {"exited", "cancelled", "failed"}

NoNet == [stage |-> "idle", data |-> <<>>, status |-> 0]

\* asyncio.Queue(maxsize): maxsize <= 0 means no limit.
NewQueue(maxsize) ==
    [maxsize |-> maxsize, items |-> <<>>, getters |-> <<>>,
     unfinished_tasks |-> 0, finished |-> TRUE]

\* Before main's first step: nothing generated, sent or received.
Fresh ==
    /\ queue = NewQueue(0)
    /\ count = 0
    /\ mpc = "start"
    /\ mi = 0
    /\ wpc = [w \in 1..config.num_workers |-> "none"]
    /\ must_cancel = [w \in 1..config.num_workers |-> FALSE]
    /\ spc = [w \in 1..config.num_workers |-> "none"]
    /\ sres = [w \in 1..config.num_workers |-> "none"]
    /\ holder = [w \in 1..config.num_workers |-> 0]
    /\ net = [w \in 1..config.num_workers |-> NoNet]
    /\ uuids = 0
    /\ sender_files = NoFiles
    /\ server_files = NoFiles
    /\ payloads = <<>>
    /\ handled = {}
    /\ log = [generator_done |-> FALSE, joined |-> FALSE, cancel_sent |-> {},
              ok200 |-> 0, non200 |-> 0, shutdown |-> FALSE]

\* The injection step has not been run on its own.
NoInjection == [blob |-> <<>>, outcome |-> "none", result |-> <<>>]

Init ==
    /\ inj = NoInjection
    /\ config \in [num_files : 0..MaxFiles, num_workers : 1..MaxWorkers,
                   inject_bad_checksums : BOOLEAN]
    /\ app_config \in [verify_hash : BOOLEAN]
    /\ reliable \in BOOLEAN
    /\ ready = <<MainH>>
    /\ Fresh

\* ------------------------------------------------------------ asyncio.Queue
\* Queue.full()
Full(q) == IF q.maxsize <= 0 THEN FALSE ELSE Len(q.items) >= q.maxsize

\* Queue._wakeup_next(getters): pop waiters from the left up to the first
\* one that is not done, and resolve that one.  A getter still in the list
\* is done exactly when its task was cancelled while waiting on it.
WakeupNext(getters, mc) ==
    LET live == {i \in DOMAIN getters : ~mc[getters[i]]}
    IN IF live = {} THEN [getters |-> <<>>, woken |-> 0]
       ELSE [getters |-> SubSeq(getters, Min(live) + 1, Len(getters)),
             woken |-> getters[Min(live)]]

\* Queue.put_nowait(item): store, count the unfinished task, clear the
\* finished event, wake one getter.
put_nowait(q, item, mc) ==
    LET wk == WakeupNext(q.getters, mc)
    IN [queue |-> [q EXCEPT !.items = Append(@, item),
                            !.unfinished_tasks = @ + 1,
                            !.finished = FALSE,
                            !.getters = wk.getters],
        woken |-> wk.woken]

\* Queue.get_nowait(): the queue after the oldest item is removed.
get_keeps_item(q) == q

get_nowait(q) == [q EXCEPT !.items = Tail(@)]

\* Queue.task_done() raises ValueError when called more often than items
\* were put; otherwise it counts down and sets the finished event at zero.
TaskDoneRaises(q) == q.unfinished_tasks <= 0

task_done_twice(q) ==
    [q EXCEPT !.unfinished_tasks = @ - 2,
              !.finished = IF q.unfinished_tasks - 2 <= 0 THEN TRUE ELSE @]

task_done(q) ==
    [q EXCEPT !.unfinished_tasks = @ - 1,
              !.finished = IF q.unfinished_tasks - 1 = 0 THEN TRUE ELSE @]

\* Queue.join(): `if self._unfinished_tasks > 0: await self._finished.wait()`
JoinBlocksWhileQueued(q) == Len(q.items) > 0

JoinBlocks(q) == q.unfinished_tasks > 0 /\ ~q.finished

\* ------------------------------------------------------------------- main
\* RandomBlobProvider.__next__: `if self.count > self.N: raise StopIteration`
StopIterationLate(c, n) == c > n + 1

StopIterationEarly(c, n) == c >= n

StopIteration(c, n) == c > n

NewPayload(blob) ==
    [blob |-> blob, puts |-> 0, gets |-> 0, dones |-> 0, writes |-> 0,
     posts |-> 0, injected |-> FALSE, id |-> 0, hash |-> 0, body |-> <<>>,
     status |-> 0]

\* What a step of main reads and writes.
MainState ==
    [queue |-> queue, ready |-> Tail(ready), count |-> count,
     payloads |-> payloads, mpc |-> mpc, mi |-> mi,
     must_cancel |-> must_cancel, log |-> log]

\* t.cancel(): nothing for a task that is done; otherwise a CancelledError
\* is thrown into the task at its next step, which is scheduled now if
\* the task was suspended on a future (a getter, or the shield's outer
\* future) that cancel() could cancel.
Cancel(S, wp, w) ==
    IF wp[w] \in Terminal THEN S
    ELSE [S EXCEPT !.must_cancel = [@ EXCEPT ![w] = TRUE],
                   !.ready = CallSoon(@, WorkerH(w))]

\* `for t in send_tasks: t.cancel(); await t`, from the i-th task on.  To
\* await a task that is done does not suspend: it returns, or raises what
\* the task raised.
AwaitWorkers(S, wp, i) ==
    LET rest == {j \in i..W : wp[j] # "exited"}
    IN IF rest = {}
       THEN [S EXCEPT !.mpc = "Done", !.mi = 0,
                      !.log.cancel_sent = @ \cup (i..W)]
       ELSE LET j == Min(rest)
                S1 == [S EXCEPT !.mi = j, !.log.cancel_sent = @ \cup (i..j)]
            IN IF wp[j] \in {"cancelled", "failed"}
               THEN [S1 EXCEPT !.mpc = "Raised"]
               ELSE [Cancel(S1, wp, j) EXCEPT !.mpc = "await"]

\* `await queue.join()` and what follows it.
Join(S, wp) ==
    IF JoinBlocks(S.queue) THEN [S EXCEPT !.mpc = "join"]
    ELSE AwaitWorkers([S EXCEPT !.log.joined = TRUE], wp, 1)

\* `await queue.put(blob)`: `while self.full(): await putter`, then
\* put_nowait; then `await asyncio.sleep(sleep_time)`.
Put(S) ==
    LET k == Len(S.payloads)
        r == put_nowait(S.queue, k, S.must_cancel)
    IN IF Full(S.queue) THEN [S EXCEPT !.mpc = "put"]
       ELSE [S EXCEPT !.queue = r.queue,
                      !.ready = IF r.woken = 0 THEN @
                                ELSE CallSoon(@, WorkerH(r.woken)),
                      !.payloads[k].puts = @ + 1,
                      !.mpc = "sleep"]

\* One turn of `for blob in blob_provider`, then the rest of main when the
\* provider stops.
GenerateWorker(S, wp, blob) ==
    LET c == S.count + 1
    IN IF StopIteration(c, N)
       THEN Join([S EXCEPT !.count = c, !.log.generator_done = TRUE], wp)
       ELSE Put([S EXCEPT !.count = c,
                          !.payloads = Append(@, NewPayload(blob))])

\* main runs from where it is suspended to its next suspension point.
MainStep ==
    /\ ready # <<>>
    /\ Head(ready) = MainH
    /\ \E blob \in Blobs :
        LET wp == IF mpc = "start" THEN [w \in Workers |-> "created"] ELSE wpc
            S0 == MainState
            S == CASE mpc = "start" ->
                        GenerateWorker(
                            [S0 EXCEPT !.queue = NewQueue(N),
                                       !.ready = @ \o [w \in 1..W |-> WorkerH(w)]],
                            wp, blob)
                   [] mpc = "sleep" -> GenerateWorker(S0, wp, blob)
                   [] mpc = "put" -> Put(S0)
                   [] mpc = "join" ->
                        AwaitWorkers([S0 EXCEPT !.log.joined = TRUE], wp, 1)
                   [] mpc = "await" ->
                        IF wp[mi] = "exited" THEN AwaitWorkers(S0, wp, mi + 1)
                        ELSE [S0 EXCEPT !.mpc = "Raised"]
        IN /\ queue' = S.queue
           /\ ready' = S.ready
           /\ count' = S.count
           /\ payloads' = S.payloads
           /\ mpc' = S.mpc
           /\ mi' = S.mi
           /\ must_cancel' = S.must_cancel
           /\ log' = S.log
           /\ wpc' = wp
    /\ UNCHANGED <<inj, config, app_config, reliable, spc, sres, holder, net, uuids,
                   sender_files, server_files, handled>>

\* asyncio.sleep's timer expires.
TimerFires ==
    /\ mpc = "sleep"
    /\ MainH \notin Range(ready)
    /\ ready' = Append(ready, MainH)
    /\ UNCHANGED <<inj, config, app_config, reliable, queue, count, mpc, mi, wpc,
                   must_cancel, spc, sres, holder, net, uuids, sender_files,
                   server_files, payloads, handled, log>>

\* ------------------------------------------------------------ send_worker
\* A task that finishes schedules the wakeup of the task awaiting it.
NotifyMain(rdy, w) ==
    IF mpc = "await" /\ mi = w THEN CallSoon(rdy, MainH) ELSE rdy

\* The CancelledError reaches the worker.  Thrown into a coroutine that has
\* not started, it is raised before the `try` is entered and the task ends
\* cancelled; thrown at `await queue.get()` or at `await asyncio.shield(..)`
\* it is caught by `except asyncio.CancelledError` and the worker returns.
\* Queue.get's own handler takes the getter out of the queue and, if the
\* getter had been resolved and an item is there, wakes the next getter.
WorkerCancelled(w) ==
    LET r0 == Tail(ready)
        others == SelectSeq(queue.getters, LAMBDA x : x # w)
        resolved == w \notin Range(queue.getters)
        wk == IF wpc[w] = "get" /\ resolved /\ Len(queue.items) > 0
              THEN WakeupNext(others, must_cancel)
              ELSE [getters |-> others, woken |-> 0]
        r1 == IF wk.woken = 0 THEN r0 ELSE CallSoon(r0, WorkerH(wk.woken))
    IN /\ wpc' = [wpc EXCEPT ![w] = IF wpc[w] = "created" THEN "cancelled"
                                    ELSE "exited"]
       /\ queue' = IF wpc[w] = "get" THEN [queue EXCEPT !.getters = wk.getters]
                   ELSE queue
       /\ must_cancel' = [must_cancel EXCEPT ![w] = FALSE]
       /\ ready' = NotifyMain(r1, w)
       /\ UNCHANGED <<spc, sres, holder, payloads>>

\* send_blob raised, or task_done did: the exception is no CancelledError,
\* so it leaves send_worker and the task ends with it.
WorkerFails(w) ==
    /\ wpc' = [wpc EXCEPT ![w] = "failed"]
    /\ ready' = NotifyMain(Tail(ready), w)
    /\ UNCHANGED <<queue, must_cancel, spc, sres, holder, payloads>>

\* The body of `while True`, from the point the worker was suspended at:
\* after the shield, queue.task_done(); then queue.get(), which returns at
\* once when the queue holds an item and suspends on a getter otherwise;
\* then asyncio.shield(send_blob(..)), which creates the send_blob task and
\* suspends the worker on it.
WorkerLoop(w) ==
    LET r0 == Tail(ready)
        fromShield == wpc[w] = "shield"
        q1 == IF fromShield THEN task_done(queue) ELSE queue
        r1 == IF fromShield /\ q1.finished /\ mpc = "join"
              THEN CallSoon(r0, MainH) ELSE r0
        p1 == IF fromShield THEN [payloads EXCEPT ![holder[w]].dones = @ + 1]
              ELSE payloads
    IN IF Len(q1.items) = 0
       THEN /\ queue' = [q1 EXCEPT !.getters = Append(@, w)]
            /\ wpc' = [wpc EXCEPT ![w] = "get"]
            /\ holder' = [holder EXCEPT ![w] = 0]
            /\ spc' = [spc EXCEPT ![w] = "none"]
            /\ sres' = [sres EXCEPT ![w] = "none"]
            /\ payloads' = p1
            /\ ready' = r1
            /\ UNCHANGED must_cancel
       ELSE LET k == Head(q1.items)
                r2 == IF mpc = "put" THEN CallSoon(r1, MainH) ELSE r1
            IN /\ queue' = get_nowait(q1)
               /\ wpc' = [wpc EXCEPT ![w] = "shield"]
               /\ holder' = [holder EXCEPT ![w] = k]
               /\ spc' = [spc EXCEPT ![w] = "scheduled"]
               /\ sres' = [sres EXCEPT ![w] = "none"]
               /\ payloads' = [p1 EXCEPT ![k].gets = @ + 1]
               /\ ready' = Append(r2, SendH(w))
               /\ UNCHANGED must_cancel

\* A send_worker task runs from where it is suspended to its next
\* suspension point, or to its end.
WorkerStep(w) ==
    /\ w \in Workers
    /\ ready # <<>>
    /\ Head(ready) = WorkerH(w)
    /\ IF must_cancel[w] THEN WorkerCancelled(w)
       ELSE IF wpc[w] = "shield" /\ (sres[w] # "ok" \/ TaskDoneRaises(queue))
       THEN WorkerFails(w)
       ELSE WorkerLoop(w)
    /\ UNCHANGED <<inj, config, app_config, reliable, count, mpc, mi, net, uuids,
                   sender_files, server_files, handled, log>>

\* --------------------------------------------------------------- send_blob
\* The shield's inner task is done: the worker's wakeup is scheduled,
\* unless the worker was cancelled meanwhile (the outer future is
\* cancelled and the result is dropped).
WakeWorker(rdy, w) ==
    IF wpc[w] = "shield" /\ ~must_cancel[w] THEN CallSoon(rdy, WorkerH(w))
    ELSE rdy

\* The multipart form send_blob builds: the metadata as JSON and the file
\* it has just written, read back.
FormData(new_id, checksum, file) ==
    [parts |-> {"metadata", "bin_file"},
     metadata |-> [json |-> "object", keys |-> {"id", "hash"},
                   id |-> new_id, hash |-> checksum],
     bin_is_file |-> TRUE,
     bin_file |-> file]

\* The bytes `f.write(blob)` writes: `blob` is the local name, which the
\* injection has rebound to the corrupted copy by the time of the write.
PersistedBeforeCorruption(original, current) == original

Persisted(original, current) == current

\* send_blob from its start to `session.post`: id, checksum, the optional
\* corruption, the file, the request.
SendStart(w) ==
    \E draw \in BOOLEAN :
        LET k == holder[w]
            blob == payloads[k].blob
            new_id == uuids + 1
            checksum == sha256(blob)
            trig == InjectTriggers(config.inject_bad_checksums, draw)
        IN /\ uuids' = new_id
           /\ IF trig /\ CorruptRaises(blob)
              THEN /\ spc' = [spc EXCEPT ![w] = "raised"]
                   /\ sres' = [sres EXCEPT ![w] = "ValueError"]
                   /\ payloads' = [payloads EXCEPT ![k].injected = TRUE,
                                                   ![k].id = new_id]
                   /\ ready' = WakeWorker(Tail(ready), w)
                   /\ UNCHANGED <<sender_files, net>>
              ELSE LET sent == IF trig THEN Corrupt(blob) ELSE blob
                       files == WriteFile(sender_files, new_id, Persisted(blob, sent))
                   IN /\ sender_files' = files
                      /\ net' = [net EXCEPT ![w] =
                                   [stage |-> "request",
                                    data |-> FormData(new_id, checksum, files[new_id]),
                                    status |-> 0]]
                      /\ spc' = [spc EXCEPT ![w] = "post"]
                      /\ payloads' = [payloads EXCEPT ![k].injected = trig,
                                                      ![k].id = new_id,
                                                      ![k].hash = checksum,
                                                      ![k].body = files[new_id],
                                                      ![k].writes = @ + 1,
                                                      ![k].posts = @ + 1]
                      /\ ready' = Tail(ready)
                      /\ UNCHANGED sres
           /\ UNCHANGED log

\* What send_blob does with the response's status: both branches only log,
\* no status makes it raise.
RaiseForStatus(status) == IF status = 200 THEN "ok" ELSE "ClientError"

ResponseOutcome(status) == "ok"

\* send_blob after the POST: the response's status is looked at and
\* logged, or the transport's exception leaves send_blob.
SendFinish(w) ==
    LET k == holder[w]
    IN /\ net' = [net EXCEPT ![w] = NoNet]
       /\ ready' = WakeWorker(Tail(ready), w)
       /\ IF net[w].stage = "error"
          THEN /\ spc' = [spc EXCEPT ![w] = "raised"]
               /\ sres' = [sres EXCEPT ![w] = "ClientError"]
               /\ UNCHANGED <<payloads, log>>
          ELSE /\ spc' = [spc EXCEPT ![w] =
                           IF ResponseOutcome(net[w].status) = "ok"
                           THEN "done" ELSE "raised"]
               /\ sres' = [sres EXCEPT ![w] = ResponseOutcome(net[w].status)]
               /\ payloads' = [payloads EXCEPT ![k].status = net[w].status]
               /\ log' = IF net[w].status = 200
                         THEN [log EXCEPT !.ok200 = @ + 1]
                         ELSE [log EXCEPT !.non200 = @ + 1]
       /\ UNCHANGED <<uuids, sender_files>>

\* A send_blob task runs one step.  A task the loop's shutdown cancelled
\* ends without running further.
SendStep(w) ==
    /\ w \in Workers
    /\ ready # <<>>
    /\ Head(ready) = SendH(w)
    /\ CASE spc[w] = "scheduled" -> SendStart(w)
         [] spc[w] = "post" -> SendFinish(w)
         [] OTHER -> /\ ready' = Tail(ready)
                     /\ UNCHANGED <<spc, sres, payloads, log, net, uuids,
                                    sender_files>>
    /\ UNCHANGED <<inj, config, app_config, reliable, queue, count, mpc, mi, wpc,
                   must_cancel, holder, server_files, handled>>

\* ------------------------------------------------------------- the network
\* The receiver handles the request: upload_handler.
ServerHandle(w) ==
    /\ w \in Workers
    /\ net[w].stage = "request"
    /\ LET r == upload_handler(net[w].data, app_config.verify_hash, server_files)
       IN /\ server_files' = r.files
          /\ handled' = handled \cup {[data |-> net[w].data, status |-> r.status]}
          /\ net' = [net EXCEPT ![w].stage = "response", ![w].status = r.status]
    /\ UNCHANGED <<inj, config, app_config, reliable, queue, count, ready, mpc, mi,
                   wpc, must_cancel, spc, sres, holder, uuids, sender_files,
                   payloads, log>>

\* The response reaches the sender: send_blob's wakeup is scheduled.
ResponseArrives(w) ==
    /\ w \in Workers
    /\ net[w].stage = "response"
    /\ spc[w] = "post"
    /\ net' = [net EXCEPT ![w].stage = "arrived"]
    /\ ready' = CallSoon(ready, SendH(w))
    /\ UNCHANGED <<inj, config, app_config, reliable, queue, count, mpc, mi, wpc,
                   must_cancel, spc, sres, holder, uuids, sender_files,
                   server_files, payloads, handled, log>>

\* The transport fails (no connection, a timeout, a response that cannot
\* be decoded), before or after the receiver handled the request.
TransportError(w) ==
    /\ w \in Workers
    /\ ~reliable
    /\ net[w].stage \in {"request", "response"}
    /\ spc[w] = "post"
    /\ net' = [net EXCEPT ![w].stage = "error"]
    /\ ready' = CallSoon(ready, SendH(w))
    /\ UNCHANGED <<inj, config, app_config, reliable, queue, count, mpc, mi, wpc,
                   must_cancel, spc, sres, holder, uuids, sender_files,
                   server_files, payloads, handled, log>>

\* ------------------------------------------------------------ asyncio.run
\* The handles of the tasks S, in the order the tasks were created.
RECURSIVE HandlesOf(_, _)
HandlesOf(kind, S) ==
    IF S = {} THEN <<>>
    ELSE <<[t |-> kind, w |-> Min(S)]>> \o HandlesOf(kind, S \ {Min(S)})

\* main has ended: asyncio.run cancels every task that is left and runs
\* the loop until they have ended.
LoopShutdown ==
    /\ mpc \in {"Done", "Raised"}
    /\ ~log.shutdown
    /\ LET left == {w \in Workers : wpc[w] \notin Terminal}
           sends == {w \in Workers : spc[w] \in {"scheduled", "post"}}
           missing == SelectSeq(HandlesOf("worker", left) \o HandlesOf("send", sends),
                                LAMBDA h : h \notin Range(ready))
       IN /\ must_cancel' = [w \in Workers |-> must_cancel[w] \/ w \in left]
          /\ spc' = [w \in Workers |-> IF w \in sends THEN "cancelled" ELSE spc[w]]
          /\ ready' = ready \o missing
    /\ log' = [log EXCEPT !.shutdown = TRUE]
    /\ UNCHANGED <<inj, config, app_config, reliable, queue, count, mpc, mi, wpc,
                   sres, holder, net, uuids, sender_files, server_files,
                   payloads, handled>>

Next ==
    \/ MainStep
    \/ TimerFires
    \/ \E w \in Workers : WorkerStep(w)
    \/ \E w \in Workers : SendStep(w)
    \/ \E w \in Workers : ServerHandle(w)
    \/ \E w \in Workers : ResponseArrives(w)
    \/ \E w \in Workers : TransportError(w)
    \/ LoopShutdown

Spec == Init /\ [][Next]_vars

\* The loop runs a handle that is ready; timers expire; the receiver
\* answers; a POST ends, with a response or with an error.
FairSpec ==
    /\ Spec
    /\ WF_vars(MainStep)
    /\ WF_vars(TimerFires)
    /\ \A w \in 1..MaxWorkers : WF_vars(WorkerStep(w))
    /\ \A w \in 1..MaxWorkers : WF_vars(SendStep(w))
    /\ \A w \in 1..MaxWorkers : WF_vars(ServerHandle(w) \/ TransportError(w))
    /\ \A w \in 1..MaxWorkers : WF_vars(ResponseArrives(w) \/ TransportError(w))
    /\ WF_vars(LoopShutdown)

\* ------------------------------------------------- the receiver on its own
\* The receiver serves any client.  The requests a client can post: each
\* part present or not; the bin_file part a file upload or a plain field;
\* the metadata part JSON text of an object or an array (with or without
\* "id" and "hash"), of a number, or no JSON at all.  A field the handler
\* cannot reach has one value only.
ClientIds == {1, 2}

NoMetadata == [json |-> "object", keys |-> {}, id |-> 0, hash |-> 0]

Metadatas ==
    {[json |-> "object", keys |-> {"id", "hash"}, id |-> i, hash |-> sha256(b)] :
        i \in ClientIds, b \in Blobs}
    \cup {[NoMetadata EXCEPT !.keys = ks] : ks \in SUBSET {"id", "hash"} \ {{"id", "hash"}}}
    \cup {[NoMetadata EXCEPT !.json = "array", !.keys = ks] : ks \in {{}, {"id", "hash"}}}
    \cup {[NoMetadata EXCEPT !.json = j] : j \in {"number", "invalid"}}

Requests ==
    {[parts |-> {"metadata", "bin_file"}, metadata |-> m, bin_is_file |-> TRUE,
      bin_file |-> b] : m \in Metadatas, b \in Blobs}
    \cup {[parts |-> ps, metadata |-> NoMetadata, bin_is_file |-> f,
           bin_file |-> <<0>>] :
            ps \in SUBSET {"metadata", "bin_file"}, f \in BOOLEAN}

\* most requests the receiver is sent
MaxRequests == 2

\* A client other than the sender posts a request on connection w.
ClientPost(w) ==
    /\ w \in Workers
    /\ net[w].stage = "idle"
    /\ spc[w] = "none"
    /\ Cardinality(handled) < MaxRequests
    /\ \E data \in Requests :
        net' = [net EXCEPT ![w] = [stage |-> "request", data |-> data,
                                   status |-> 0]]
    /\ UNCHANGED <<inj, config, app_config, reliable, queue, count, ready, mpc, mi,
                   wpc, must_cancel, spc, sres, holder, uuids, sender_files,
                   server_files, payloads, handled, log>>

\* That client has read the response.
ClientReceives(w) ==
    /\ w \in Workers
    /\ net[w].stage = "response"
    /\ spc[w] = "none"
    /\ net' = [net EXCEPT ![w] = NoNet]
    /\ UNCHANGED <<inj, config, app_config, reliable, queue, count, ready, mpc, mi,
                   wpc, must_cancel, spc, sres, holder, uuids, sender_files,
                   server_files, payloads, handled, log>>

\* The receiver runs and the sender does not.
ReceiverInit ==
    /\ inj = NoInjection
    /\ config = [num_files |-> 0, num_workers |-> 1,
                 inject_bad_checksums |-> FALSE]
    /\ app_config \in [verify_hash : BOOLEAN]
    /\ reliable = TRUE
    /\ ready = <<>>
    /\ Fresh

ReceiverNext ==
    \/ \E w \in Workers : ClientPost(w)
    \/ \E w \in Workers : ServerHandle(w)
    \/ \E w \in Workers : ClientReceives(w)

ReceiverSpec == ReceiverInit /\ [][ReceiverNext]_vars

\* ------------------------------------------------- the injection step alone
\* The two statements of the injection, `blob = bytearray(blob)` and
\* `blob[0] += 1`, applied to payloads with every first byte.
MaxBlobLen == 2

AllBytes == 0..255

InjectionInputs ==
    UNION {{<<b>> \o rest : b \in AllBytes, rest \in [1..(n - 1) -> ByteValues]} :
           n \in 1..MaxBlobLen}

InjectCorruption ==
    /\ inj.outcome = "none"
    /\ inj' = IF CorruptRaises(inj.blob)
              THEN [inj EXCEPT !.outcome = "ValueError"]
              ELSE [inj EXCEPT !.outcome = "ok", !.result = Corrupt(inj.blob)]
    /\ UNCHANGED <<config, app_config, reliable, queue, count, ready, mpc, mi,
                   wpc, must_cancel, spc, sres, holder, net, uuids,
                   sender_files, server_files, payloads, handled, log>>

InjectionInit ==
    /\ inj \in [blob : InjectionInputs, outcome : {"none"}, result : {<<>>}]
    /\ config = [num_files |-> 0, num_workers |-> 1,
                 inject_bad_checksums |-> TRUE]
    /\ app_config = [verify_hash |-> TRUE]
    /\ reliable = TRUE
    /\ ready = <<>>
    /\ Fresh

InjectionNext == InjectCorruption

InjectionSpec == InjectionInit /\ [][InjectionNext]_vars

\* ------------------------------------------------------------------ claims
Occurrences(seq, x) == Cardinality({i \in DOMAIN seq : seq[i] = x})

InSend(w) == spc[w] \in {"scheduled", "post"}

\* C1: queue.join() has not returned while a payload that was put on the
\* queue has had no task_done() called for it.
C1_JoinWaitsForTaskDone ==
    log.joined =>
        \A k \in DOMAIN payloads :
            payloads[k].puts >= 1 => payloads[k].dones >= 1

\* main waits in join while the queue is empty and a worker is inside send_blob
C1_Witness ==
    /\ mpc = "join"
    /\ ~log.joined
    /\ Len(queue.items) = 0
    /\ \E w \in Workers : holder[w] # 0 /\ spc[w] = "post"

\* C2: once queue.join() has returned, each of the num_files payloads has
\* been written to a sender file and has had one POST issued for it.
C2_JoinedImpliesWrittenAndPosted ==
    log.joined =>
        /\ Len(payloads) = N
        /\ \A k \in 1..N :
            /\ payloads[k].writes = 1
            /\ payloads[k].id \in DOMAIN sender_files
            /\ payloads[k].posts = 1

\* join has returned after two payloads, one of them answered 400
C2_Witness ==
    /\ log.joined
    /\ N = 2
    /\ \E k \in 1..N : payloads[k].status = 400
    /\ \E k \in 1..N : payloads[k].status = 200

\* C3: a worker whose send_blob failed with a transport error is not
\* terminated by it (it marks the payload done and goes on).
C3_TransportErrorContained ==
    \A w \in Workers : sres[w] = "ClientError" => wpc[w] # "failed"

\* C4: main eventually reaches 'Done!'.
C4_MainTerminates == <>(mpc = "Done")

\* C5: a payload put on the queue is in the queue or has been returned by
\* queue.get() once, never both and never twice; no two workers hold the
\* same payload; none is missing when the queue has drained.
C5_DequeuedExactlyOnce ==
    /\ \A k \in DOMAIN payloads :
        payloads[k].puts = 1 =>
            payloads[k].gets + Occurrences(queue.items, k) = 1
    /\ \A k \in DOMAIN payloads : payloads[k].puts = 0 => payloads[k].gets = 0
    /\ \A w1, w2 \in Workers :
        (w1 # w2 /\ holder[w1] # 0) => holder[w1] # holder[w2]
    /\ log.joined => \A k \in DOMAIN payloads : payloads[k].gets = 1

\* two workers hold one payload each
C5_Witness ==
    /\ W >= 2
    /\ holder[1] # 0
    /\ holder[2] # 0
    /\ \A k \in DOMAIN payloads : payloads[k].gets = 1

\* C6: the queue never holds more than num_files payloads, and every
\* payload generated has been stored in the queue by queue.put; the
\* generator ends with num_files payloads stored.
C6_CapacityAndNoDrop ==
    /\ Len(queue.items) <= N
    /\ \A k \in DOMAIN payloads : payloads[k].puts = 1
    /\ log.generator_done => Len(payloads) = N

\* the queue is at its capacity: queue.put has stored a payload and the
\* queue is full
C6_Witness ==
    /\ N >= 1
    /\ Len(queue.items) = N
    /\ Full(queue)
    /\ \A k \in DOMAIN payloads : payloads[k].puts = 1

\* C7: main calls cancel() only after the generator has finished and join
\* has returned; when main is at 'Done!' every send_blob that started has
\* written its file and has been answered; and a worker to which a
\* cancellation is on its way, or that has ended by one, is in no send.
C7_CancelAfterDrain ==
    /\ log.cancel_sent # {} => (log.generator_done /\ log.joined)
    /\ mpc = "Done" =>
        /\ \A w \in Workers : ~InSend(w)
        /\ \A k \in DOMAIN payloads :
            payloads[k].gets >= 1 =>
                (payloads[k].writes = 1 /\ payloads[k].status # 0)
    /\ \A w \in Workers :
        (must_cancel[w] \/ wpc[w] \in {"exited", "cancelled"}) =>
            (holder[w] = 0 /\ ~InSend(w))

\* main is at 'Done!' after sends, and both workers ended by cancellation
C7_Witness ==
    /\ mpc = "Done"
    /\ N >= 1
    /\ W = 2
    /\ \A w \in Workers : wpc[w] = "exited"
    /\ log.cancel_sent = Workers

\* C8: with verify_hash, a request whose bytes do not hash to the declared
\* hash was answered 400 and has no file, and every file in the uploads
\* directory comes from a request answered 200 whose hash matches it.
C8_OnlyVerifiedFilesWritten ==
    app_config.verify_hash =>
        /\ \A r \in handled :
            sha256(r.data.bin_file) # r.data.metadata.hash =>
                (r.status = 400 /\ r.data.metadata.id \notin DOMAIN server_files)
        /\ \A id \in DOMAIN server_files :
            \E r \in handled :
                /\ r.data.metadata.id = id
                /\ r.status = 200
                /\ r.data.bin_file = server_files[id]
                /\ sha256(server_files[id]) = r.data.metadata.hash

\* a verifying receiver has rejected a mismatching upload and stored another
C8_Witness ==
    /\ app_config.verify_hash
    /\ \E r \in handled :
        r.status = 400 /\ sha256(r.data.bin_file) # r.data.metadata.hash
    /\ DOMAIN server_files # {}

\* C9: a payload on which fault injection triggered was transmitted with
\* the digest of its original bytes and with bytes that differ from them;
\* a verifying receiver answered 400 and stored no file for its id; the
\* worker that got the answer marked the payload done.
C9_InjectionRejected ==
    \A k \in DOMAIN payloads :
        payloads[k].injected =>
            /\ payloads[k].posts = 1
            /\ payloads[k].hash = sha256(payloads[k].blob)
            /\ payloads[k].body # payloads[k].blob
            /\ app_config.verify_hash =>
                /\ payloads[k].id \notin DOMAIN server_files
                /\ \A r \in handled :
                    r.data.metadata.id = payloads[k].id => r.status = 400
            /\ (payloads[k].status # 0 /\ \A w \in Workers : holder[w] # k) =>
                payloads[k].dones = 1

\* C10: without fault injection, with verification and a transport that
\* does not fail, when main has ended the receiver holds num_files files,
\* each equal to the sender's file of the same id, and the sender has
\* seen num_files responses with status 200.
C10_AllDelivered ==
    (/\ ~config.inject_bad_checksums
     /\ app_config.verify_hash
     /\ reliable
     /\ mpc \in {"Done", "Raised"}) =>
        /\ Cardinality(DOMAIN server_files) = N
        /\ DOMAIN server_files = DOMAIN sender_files
        /\ \A id \in DOMAIN server_files : server_files[id] = sender_files[id]
        /\ log.ok200 = N

\* main is at 'Done!' after two payloads and two workers, all delivered
C10_Witness ==
    /\ ~config.inject_bad_checksums
    /\ app_config.verify_hash
    /\ reliable
    /\ mpc = "Done"
    /\ N = 2
    /\ W = 2
    /\ Cardinality(DOMAIN server_files) = 2

\* C11: a request answered 400 leaves the uploads directory as it was: no
\* file is created and none is modified.
C11_Rejected400LeavesDirectory ==
    [][\A w \in Workers :
        (/\ net[w].stage = "request"
         /\ net'[w].stage = "response"
         /\ net'[w].status = 400) => server_files' = server_files]_vars

\* a verifying receiver has answered 400 to a request whose id names a
\* file it holds and whose bytes differ from that file
C11_Witness ==
    \E w \in Workers :
        /\ net[w].stage = "response"
        /\ net[w].status = 400
        /\ app_config.verify_hash
        /\ net[w].data.metadata.keys = {"id", "hash"}
        /\ net[w].data.metadata.id \in DOMAIN server_files
        /\ server_files[net[w].data.metadata.id] # net[w].data.bin_file

\* C12: every POST is answered 200 or 400.
C12_AnswersAre200Or400 ==
    \A w \in Workers :
        net[w].stage = "response" => net[w].status \in {200, 400}

\* C15: the file an accepted request wrote still holds the bytes of that
\* request, whatever requests came later.
C15_WrittenFileKeepsContents ==
    \A r \in handled :
        r.status = 200 =>
            server_files[r.data.metadata.id] = r.data.bin_file


\* C13: a payload whose POST the receiver answered with a status other than
\* 200 was posted once only; the worker that sent it leaves send_blob
\* normally, and once it has moved on (to queue.get or to the next payload)
\* task_done was called for the payload exactly once.
C13_Non200StillMarkedDone ==
    \A k \in DOMAIN payloads :
        payloads[k].status \notin {0, 200} =>
            /\ payloads[k].posts = 1
            /\ \A w \in Workers :
                   holder[w] = k => /\ wpc[w] = "shield"
                                    /\ spc[w] = "done"
                                    /\ sres[w] = "ok"
                                    /\ payloads[k].dones = 0
            /\ (\A w \in Workers : holder[w] # k) => payloads[k].dones = 1

\* queue.join() has returned although every upload was rejected.
C13_Witness ==
    /\ log.joined
    /\ N = 2
    /\ \A k \in DOMAIN payloads : payloads[k].status = 400 /\ payloads[k].dones = 1
    /\ \E w \in Workers : wpc[w] = "get"

\* C14: for every payload a worker has dequeued and send_blob has worked on,
\* the sender's file was written exactly once and at most one POST was made.
C14_OneWriteAtMostOnePost ==
    \A k \in DOMAIN payloads :
        /\ payloads[k].gets <= 1
        /\ payloads[k].id # 0 => payloads[k].writes = 1 /\ payloads[k].posts <= 1

\* C16 (as stated): the sender's file holds the original bytes; when the
\* injection triggered the uploaded body differs from them, otherwise the
\* body and the file are the same.
C16_FileHoldsOriginal ==
    \A k \in DOMAIN payloads :
        payloads[k].posts = 1 =>
            /\ sender_files[payloads[k].id] = payloads[k].blob
            /\ payloads[k].injected => payloads[k].body # payloads[k].blob
            /\ ~payloads[k].injected =>
                   payloads[k].body = sender_files[payloads[k].id]

\* C16 (amended): the uploaded body is always the bytes of the sender's
\* file; when the injection triggered both are the corrupted bytes, which
\* differ from the original the declared checksum was computed over;
\* without injection both are the original bytes.
C16_FileHoldsUploadedBytes ==
    \A k \in DOMAIN payloads :
        payloads[k].posts = 1 =>
            /\ sender_files[payloads[k].id] = payloads[k].body
            /\ payloads[k].hash = sha256(payloads[k].blob)
            /\ payloads[k].injected =>
                   /\ payloads[k].body = Corrupt(payloads[k].blob)
                   /\ payloads[k].body # payloads[k].blob
            /\ ~payloads[k].injected => payloads[k].body = payloads[k].blob

\* Two payloads were posted, one with the injection and one without.
C16_Witness ==
    \E j, k \in DOMAIN payloads :
        /\ payloads[j].posts = 1 /\ payloads[j].injected
        /\ payloads[k].posts = 1 /\ ~payloads[k].injected

\* C17: the injection never raises, whatever the first byte, and its
\* result has the length of the payload and differs from it in the first
\* byte and in no other.
C17_InjectionNeverRaises ==
    inj.outcome # "none" =>
        /\ inj.outcome = "ok"
        /\ Len(inj.result) = Len(inj.blob)
        /\ inj.result[1] # inj.blob[1]
        /\ \A i \in 2..Len(inj.blob) : inj.result[i] = inj.blob[i]

\* C18: no worker main has sent a cancellation to ends as a cancelled task
\* (the CancelledError is caught inside send_worker), and `await t` in
\* main never raises.
C18_CancellationCaughtInWorker ==
    /\ mpc # "Raised"
    /\ \A w \in log.cancel_sent : wpc[w] # "cancelled"

\* C19: in the state in which main has just issued t.cancel(), no worker
\* has a send_blob in progress: each one is suspended in queue.get(), has
\* not started yet, or has exited.
C19_NoSendInProgressAtCancel ==
    [][log.cancel_sent' # log.cancel_sent =>
           \A w \in Workers : /\ ~InSend(w)'
                              /\ wpc'[w] \in {"created", "get", "exited"}
                              /\ holder'[w] = 0]_vars

\* main has cancelled the first of two workers, which waits in queue.get()
\* after both payloads were sent.
C19_Witness ==
    /\ N = 2
    /\ W = 2
    /\ mpc = "await"
    /\ log.cancel_sent = {1}
    /\ must_cancel[1]
    /\ \A w \in Workers : wpc[w] = "get"
    /\ \A k \in DOMAIN payloads : payloads[k].posts = 1

RECURSIVE SumTo(_, _)
SumTo(f, n) == IF n = 0 THEN 0 ELSE f[n] + SumTo(f, n - 1)

TotalPuts == SumTo([k \in DOMAIN payloads |-> payloads[k].puts], Len(payloads))
TotalGets == SumTo([k \in DOMAIN payloads |-> payloads[k].gets], Len(payloads))
TotalDones == SumTo([k \in DOMAIN payloads |-> payloads[k].dones], Len(payloads))

\* C20: the queue's unfinished-task counter is the number of puts minus the
\* number of task_done calls and is not negative; task_done was not called
\* more often than get returned, and a worker about to call it does not
\* make it raise; a payload that was dequeued and is not marked done is
\* held by exactly one worker, and there are at most num_workers of them.
C20_QueueCountersConsistent ==
    /\ queue.unfinished_tasks = TotalPuts - TotalDones
    /\ queue.unfinished_tasks >= 0
    /\ TotalDones <= TotalGets
    /\ \A w \in Workers :
           wpc[w] = "shield" /\ sres[w] = "ok" => ~TaskDoneRaises(queue)
    /\ \A k \in DOMAIN payloads :
           payloads[k].gets - payloads[k].dones =
               Cardinality({w \in Workers : holder[w] = k})
    /\ \A k \in DOMAIN payloads :
           Cardinality({w \in Workers : holder[w] = k}) <= 1
    /\ TotalGets - TotalDones = Cardinality({w \in Workers : holder[w] # 0})
    /\ TotalGets - TotalDones <= W

\* Two workers each hold a payload, both put, dequeued and not marked done.
C20_Witness ==
    /\ W = 2
    /\ \A w \in Workers : holder[w] # 0
    /\ holder[1] # holder[2]
    /\ queue.unfinished_tasks = 2
    /\ TotalGets = 2
    /\ TotalDones = 0
====
